---- MODULE Spec2Model ----
(***************************************************************************)
(* A model of the agent programs of gemmalocalllm:                         *)
(*   - src/experimemt/main.go : the plan/act/observe agent (Agent.Run)     *)
(*   - src/main.go            : the disk agent (executeToolCall)           *)
(*   - src/unnamed/part_002   : the interactive chat agent                 *)
(*                                                                         *)
(* Text is modelled as a sequence of tokens.  A token is a literal chunk   *)
(* of characters; the chunks are chosen so that the patterns the code      *)
(* looks for ("Final Answer:", the tool-call regular expression, white     *)
(* space, the trigger phrase) never straddle a token boundary.             *)
(***************************************************************************)
EXTENDS Integers, Sequences, FiniteSets, TLC

VARIABLES
    pc,          \* position of the running program
    Tools,       \* Agent.Tools: registered name -> Tool
    userInput,   \* main: strings.Join(os.Args[1:], " ")
    file,        \* conversation_history.json on disk
    history,     \* Run: local variable history
    loaded,      \* the value GetConversationHistory returned at the start of Run
    i,           \* Run: loop counter
    prompt,      \* Run: the prompt of the current iteration
    response,    \* Run: the model response of the current iteration
    result,      \* what Run returned: [answer, failed, err]
    modelCalls,  \* number of HTTP requests CallOllama has sent
    httpFailed,  \* an HTTP exchange of this run did not deliver a decodable 200 answer
    toolLog,     \* tool functions invoked, in order: [name, args, step, ok, obs]
    writes,      \* values written to the history file, in order
    stdout,      \* what main printed with fmt.Println
    exitCode,    \* process exit status, -1 while running
    promptLog,   \* strings GeneratePrompt has returned for one (history, input)
    spawned,     \* external processes started, in order: their argument lists
    disk,        \* src/main.go: local state of main and executeToolCall
    chat,        \* src/unnamed/part_002: local state of main
    calc,        \* the calculator Function applied to one argument map
    sess,        \* two runs of Agent.Run side by side: the locals of each
    files        \* the history files of those runs, by path

harness == <<calc, sess, files>>

nonAgent == <<promptLog, spawned, disk, chat, harness>>

agentLocals == <<Tools, userInput, file, history, loaded, i, prompt, response,
                    result, modelCalls, httpFailed, toolLog, writes, stdout, exitCode>>

agentVars == <<pc, Tools, userInput, file, history, loaded, i, prompt, response,
               result, modelCalls, httpFailed, toolLog, writes, stdout, exitCode>>

----------------------------------------------------------------------------
(* Tokens *)

FA      == "Final Answer:"
SP      == " "
OPEN    == "{ \"name\": \""
CLOSE   == "\" }"
END     == " }"
AQ      == "\", \"arguments\": {\"query\": \""
AQS     == "\", \"arguments\": { \"query\": \""
AC      == "\", \"arguments\": {\"operation\": \""
APAD    == "\"}, \"pad\": \""
PHRASE  == "chris tanti"

\* strings.ToLower, token by token
ToLowerTok(t) ==
    CASE t = "Chris Tanti" -> PHRASE
      [] t = "CHRIS TANTI" -> PHRASE
      [] t = "Who is "     -> "who is "
      [] OTHER             -> t

RECURSIVE ToLower(_)
ToLower(s) == IF s = <<>> THEN <<>> ELSE <<ToLowerTok(Head(s))>> \o ToLower(Tail(s))

\* strings.Contains(s, "chris tanti")
ContainsPhrase(s) == \E k \in 1..Len(s) : s[k] = PHRASE

\* strings.Contains(s, sub) for token sequences
Contains(s, sub) ==
    \E k \in 0..(Len(s) - Len(sub)) : SubSeq(s, k + 1, k + Len(sub)) = sub

\* strings.HasPrefix(s, "Final Answer:")
HasPrefix(s, tok) == Len(s) > 0 /\ s[1] = tok

\* strings.TrimPrefix(s, tok)
TrimPrefix(s, tok) == IF HasPrefix(s, tok) THEN Tail(s) ELSE s

IsSpace(t) == t \in {SP, "\n"}

RECURSIVE TrimLeft(_)
TrimLeft(s) == IF s # <<>> /\ IsSpace(Head(s)) THEN TrimLeft(Tail(s)) ELSE s

RECURSIVE TrimRight(_)
TrimRight(s) ==
    IF s # <<>> /\ IsSpace(s[Len(s)]) THEN TrimRight(SubSeq(s, 1, Len(s) - 1)) ELSE s

\* a trim that forgets the right-hand side
TrimSpaceLeftOnly(s) == TrimLeft(s)

\* strings.TrimSpace
TrimSpace(s) == TrimRight(TrimLeft(s))

IsPrefixOf(p, s) == Len(p) <= Len(s) /\ SubSeq(s, 1, Len(p)) = p

----------------------------------------------------------------------------
(* The tool-call grammar of a model response *)

\* Largest operand magnitude written in a modelled calculator call
MaxNum == 3

Nums == (0 - MaxNum)..MaxNum

\* the text  ", "num1": a, "num2": b}, "pad": "
NumsTok(a, b) ==
    "\", \"num1\": " \o ToString(a) \o ", \"num2\": " \o ToString(b) \o "}, \"pad\": \""

NumsToks == {NumsTok(a, b) : a \in Nums, b \in Nums}

Num1Of(t) == CHOOSE a \in Nums : \E b \in Nums : t = NumsTok(a, b)
Num2Of(t) == CHOOSE b \in Nums : \E a \in Nums : t = NumsTok(a, b)

\* tokens that carry JSON structure; every other token is plain text that may
\* stand inside a JSON string
Structural == {OPEN, CLOSE, END, AQ, AQS, AC, APAD} \cup NumsToks

IsText(t) == t \notin Structural

\* regexp `(?s)\{ "name": ".*?" \}` with FindStringSubmatch: the leftmost
\* match, shortest first; <<>> when nothing matches
FirstAt(s, tok, from) ==
    IF \E k \in from..Len(s) : s[k] = tok
    THEN CHOOSE k \in from..Len(s) : s[k] = tok /\ \A j \in from..(k - 1) : s[j] # tok
    ELSE 0

FindMatch(s) ==
    LET a == FirstAt(s, OPEN, 1)
        b == IF a = 0 THEN 0 ELSE FirstAt(s, CLOSE, a + 1)
    IN  IF a = 0 \/ b = 0 THEN <<>> ELSE SubSeq(s, a, b)

\* the longest run of text tokens of s starting at position k
RECURSIVE TextRun(_, _)
TextRun(s, k) ==
    IF k <= Len(s) /\ IsText(s[k]) THEN <<s[k]>> \o TextRun(s, k + 1) ELSE <<>>

NoArgs == [has |-> {}, query |-> <<>>, operation |-> <<>>, num1 |-> 0, num2 |-> 0]

\* the argument map {"operation": op, "num1": a, "num2": b}
CalcArgs(op, a, b) ==
    [has |-> {"operation", "num1", "num2"}, query |-> <<>>,
     operation |-> op, num1 |-> a, num2 |-> b]

BadJSON == [ok |-> FALSE, Name |-> <<>>, Args |-> NoArgs]

\* the members that follow the "name" member, from position k of m on; a
\* repeated "arguments" member is merged into the map already decoded
RECURSIVE ParseMembers(_, _, _, _)
ParseMembers(m, k, name, args) ==
    IF k > Len(m) THEN BadJSON
    ELSE IF m[k] = CLOSE
    THEN IF k = Len(m) THEN [ok |-> TRUE, Name |-> name, Args |-> args] ELSE BadJSON
    ELSE IF m[k] \in {AQ, AQS}
    THEN LET q  == TextRun(m, k + 1)
             k2 == k + 1 + Len(q)
         IN  IF k2 <= Len(m) /\ m[k2] = APAD
             THEN LET pad == TextRun(m, k2 + 1)
                  IN  ParseMembers(m, k2 + 1 + Len(pad), name,
                          [args EXCEPT !.has = @ \cup {"query"}, !.query = q])
             ELSE BadJSON
    ELSE IF m[k] = AC
    THEN LET op == TextRun(m, k + 1)
             k2 == k + 1 + Len(op)
         IN  IF k2 <= Len(m) /\ m[k2] \in NumsToks
             THEN LET pad == TextRun(m, k2 + 1)
                  IN  ParseMembers(m, k2 + 1 + Len(pad), name,
                          [args EXCEPT !.has = @ \cup {"operation", "num1", "num2"},
                                       !.operation = op,
                                       !.num1 = Num1Of(m[k2]),
                                       !.num2 = Num2Of(m[k2])])
             ELSE BadJSON
    ELSE BadJSON

\* json.Unmarshal([]byte(jsonString), &toolCall)
Unmarshal(m) ==
    IF Len(m) >= 2 /\ m[1] = OPEN
    THEN LET name == TextRun(m, 2)
         IN  ParseMembers(m, 2 + Len(name), name, NoArgs)
    ELSE BadJSON

----------------------------------------------------------------------------
(* The tools main registers *)

Ok(out)    == [out |-> out, failed |-> FALSE, err |-> <<>>]
Fail(msg)  == [out |-> <<>>, failed |-> TRUE, err |-> <<msg>>]

Abs(n) == IF n < 0 THEN 0 - n ELSE n

\* a float64 result, kept as sign and magnitude in hundredths, rounded to the
\* nearest hundredth (ties to even) as fmt's %.2f rounds it
F64(neg, num, den) ==
    LET q == (num * 100) \div den
        r == (num * 100) % den
        h == IF 2 * r > den THEN q + 1
             ELSE IF 2 * r = den THEN q + (q % 2)
             ELSE q
    IN  [neg |-> neg, h |-> h]

\* fmt.Sprintf("%.2f", result)
Sprintf2f(f) ==
    LET frac == f.h % 100
    IN  (IF f.neg THEN "-" ELSE "") \o ToString(f.h \div 100) \o "."
            \o (IF frac < 10 THEN "0" ELSE "") \o ToString(frac)

\* a calculator that divides without testing the divisor: IEEE 754 division
\* by zero gives an infinity, or NaN for 0/0
CalculatorDividesUnchecked(args) ==
    IF "operation" \notin args.has THEN Fail("missing 'operation' argument")
    ELSE IF "num1" \notin args.has THEN Fail("missing or invalid 'num1' argument")
    ELSE IF "num2" \notin args.has THEN Fail("missing or invalid 'num2' argument")
    ELSE LET a  == args.num1
             b  == args.num2
             op == args.operation
         IN  IF op = <<"add">>
             THEN Ok(<<Sprintf2f(F64(a + b < 0, Abs(a + b), 1))>>)
             ELSE IF op = <<"subtract">>
             THEN Ok(<<Sprintf2f(F64(a - b < 0, Abs(a - b), 1))>>)
             ELSE IF op = <<"multiply">>
             THEN Ok(<<Sprintf2f(F64((a < 0) # (b < 0), Abs(a * b), 1))>>)
             ELSE IF op = <<"divide">>
             THEN IF b = 0
                  THEN Ok(<<IF a = 0 THEN "NaN" ELSE IF a < 0 THEN "-Inf" ELSE "+Inf">>)
                  ELSE Ok(<<Sprintf2f(F64((a < 0) # (b < 0), Abs(a), Abs(b)))>>)
             ELSE [out |-> <<>>, failed |-> TRUE,
                   err |-> <<"unsupported operation: ">> \o op]

\* the calculator tool's Function
Calculator(args) ==
    IF "operation" \notin args.has THEN Fail("missing 'operation' argument")
    ELSE IF "num1" \notin args.has THEN Fail("missing or invalid 'num1' argument")
    ELSE IF "num2" \notin args.has THEN Fail("missing or invalid 'num2' argument")
    ELSE LET a  == args.num1
             b  == args.num2
             op == args.operation
         IN  IF op = <<"add">>
             THEN Ok(<<Sprintf2f(F64(a + b < 0, Abs(a + b), 1))>>)
             ELSE IF op = <<"subtract">>
             THEN Ok(<<Sprintf2f(F64(a - b < 0, Abs(a - b), 1))>>)
             ELSE IF op = <<"multiply">>
             THEN Ok(<<Sprintf2f(F64((a < 0) # (b < 0), Abs(a * b), 1))>>)
             ELSE IF op = <<"divide">>
             THEN IF b = 0
                  THEN Fail("division by zero")
                  ELSE Ok(<<Sprintf2f(F64((a < 0) # (b < 0), Abs(a), Abs(b)))>>)
             ELSE [out |-> <<>>, failed |-> TRUE,
                   err |-> <<"unsupported operation: ">> \o op]

\* the web_search tool's Function
WebSearch(args) ==
    IF "query" \notin args.has THEN Fail("missing 'query' argument")
    ELSE Ok(<<"Search results for '">> \o args.query
            \o <<"': The weather is currently 75F and sunny.">>)

\* the chris_tanti tool's Function
ChrisTanti(args) ==
    IF "query" \notin args.has THEN Fail("missing 'query' argument")
    ELSE IF ContainsPhrase(ToLower(args.query))
    THEN Ok(<<"Chris Tanti is a prominent figure from cardiff">>)
    ELSE Ok(<<"I cannot provide information about this person.">>)

\* tool.Function(args): the closure stored in the Tool
CallFunction(tool, args) ==
    CASE tool.Function = "calculator"  -> Calculator(args)
      [] tool.Function = "web_search"  -> WebSearch(args)
      [] tool.Function = "chris_tanti" -> ChrisTanti(args)

CalculatorTool ==
    [Name |-> <<"calculator">>, Function |-> "calculator",
     Description |-> "A tool that can perform basic arithmetic operations.",
     Args |-> "map[num1:number num2:number operation:string]"]

WebSearchTool ==
    [Name |-> <<"web_search">>, Function |-> "web_search",
     Description |-> "A tool that can search the internet for information.",
     Args |-> "map[query:string]"]

ChrisTantiTool ==
    [Name |-> <<"chris_tanti">>, Function |-> "chris_tanti",
     Description |-> "A tool that provides information about Chris Tanti.",
     Args |-> "map[query:string]"]

\* NewAgent: Tools is make(map[string]Tool)
NewAgent == <<>>

\* Agent.AddTool: a.Tools[tool.Name] = tool
AddTool(tools, tool) ==
    [n \in DOMAIN tools \cup {tool.Name} |-> IF n = tool.Name THEN tool ELSE tools[n]]

----------------------------------------------------------------------------
(* Prompt, model client *)

\* the orders in which `for _, tool := range a.Tools` may visit the map: Go
\* leaves the iteration order of a map unspecified
RangeOrders(tools) ==
    {o \in [1..Cardinality(DOMAIN tools) -> DOMAIN tools] :
        \A x, y \in DOMAIN o : x # y => o[x] # o[y]}

RECURSIVE RenderTools(_, _)
RenderTools(tools, order) ==
    IF order = <<>> THEN <<>>
    ELSE LET t == tools[Head(order)]
         IN  <<"Name: ">> \o t.Name \o <<"\n", "Description: ", t.Description, "\n",
               "Arguments: ", t.Args, "\n\n">> \o RenderTools(tools, Tail(order))

\* Agent.GetToolsPrompt, the map visited in the given order
GetToolsPrompt(tools, order) == <<"AVAILABLE TOOLS:\n">> \o RenderTools(tools, order)

\* Agent.GeneratePrompt
GeneratePrompt(tools, order, hist, input) ==
    <<"You are a helpful assistant. You have access to the following tools:">>
        \o GetToolsPrompt(tools, order)
        \o <<"Your final response should start with 'Final Answer:'. Action: JSON",
             "Current conversation history:\n">>
        \o hist \o <<"\nUser: ">> \o input

\* a client that does not test resp.StatusCode and decodes whatever came back
CallOllamaIgnoresStatus(http) ==
    CASE http.kind = "transport" -> Fail("failed to send request to Ollama")
      [] http.kind = "status"    -> Ok(http.response)
      [] http.kind = "body"      -> Fail("failed to decode Ollama response")
      [] http.kind = "ok"        -> Ok(http.response)

\* Agent.CallOllama, given what the HTTP exchange did: the transport failed,
\* the server answered with a status other than 200, the body did not decode,
\* or the body decoded and carried the response text
CallOllama(http) ==
    CASE http.kind = "transport" -> Fail("failed to send request to Ollama")
      [] http.kind = "status"    -> Fail("Ollama request failed with status code")
      [] http.kind = "body"      -> Fail("failed to decode Ollama response")
      [] http.kind = "ok"        -> Ok(http.response)

----------------------------------------------------------------------------
(* The history store *)

\* Agent.GetConversationHistory
GetConversationHistory(f) ==
    IF ~f.exists THEN Ok(<<>>)
    ELSE IF ~f.readable THEN Fail("failed to read conversation history file")
    ELSE Ok(f.data)

\* a store that opens the file for appending instead of replacing its content
SaveConversationHistoryAppends(f, hist) ==
    [f EXCEPT !.exists = TRUE, !.data = (IF f.exists THEN f.data ELSE <<>>) \o hist]

\* Agent.SaveConversationHistory: os.WriteFile replaces the file's content
SaveConversationHistory(f, hist) == [f EXCEPT !.exists = TRUE, !.data = hist]

----------------------------------------------------------------------------
(* Inputs *)

\* the loop's iteration ceiling: for i := 0; i < 5; i++
MaxSteps == 5

\* what the history file may hold when the program starts.  File access is
\* taken to succeed: a file that exists can be read, and os.WriteFile writes
\* all of its argument
InitialFiles ==
    { [exists |-> FALSE, readable |-> TRUE, data |-> <<>>],
      [exists |-> TRUE,  readable |-> TRUE, data |-> <<"\nAssistant: ", "an earlier answer">>] }

\* command lines: os.Args[1:] joined
UserInputs ==
    { <<"What is 2 plus 3?">>,
      <<"Who is ", "Chris Tanti", "?">>,
      <<"CHRIS TANTI">> }

FinalResponses ==
    { <<FA>>,
      <<FA, SP>>,
      <<FA, SP, "4", SP, "2", SP>>,
      <<FA, SP, OPEN, "calculator", CLOSE>> }

NoActionResponses ==
    { <<>>,
      <<SP, FA, SP, "42">>,
      <<"Thought: I should search.">> }

\* the format the prompt shows: the match stops at the first  " }
BadJSONResponses ==
    { <<"Thought: search.", OPEN, "web_search", AQS, "weather", CLOSE, END>> }

UnknownToolResponses ==
    { <<OPEN, "shell", CLOSE>> }

ToolResponses ==
    { <<"Thought: compute.", OPEN, "calculator", CLOSE>>,
      <<OPEN, "calculator", AC, "divide", NumsTok(1, 0), CLOSE>>,
      <<OPEN, "calculator", AC, "add", NumsTok(2, 3), CLOSE, "Thought: done.">>,
      <<OPEN, "web_search", AQ, "weather", APAD, CLOSE, FA, "sunny">> }

Responses ==
    FinalResponses \cup NoActionResponses \cup BadJSONResponses
        \cup UnknownToolResponses \cup ToolResponses

\* what one HTTP exchange with the model server can do
HttpOutcomes ==
    { [kind |-> "transport", response |-> <<>>],
      [kind |-> "status",    response |-> <<>>],
      [kind |-> "body",      response |-> <<>>] }
        \cup { [kind |-> "ok", response |-> r] : r \in Responses }

----------------------------------------------------------------------------
(* src/experimemt/main.go: main and Agent.Run *)

NoResult == [answer |-> <<>>, failed |-> FALSE, err |-> <<>>]
Err(msg) == [answer |-> <<>>, failed |-> TRUE, err |-> msg]

\* the variables of Run and main before main has done anything
AgentFresh ==
    /\ Tools = NewAgent
    /\ userInput = <<>>
    /\ history = <<>>
    /\ loaded = <<>>
    /\ i = 0
    /\ prompt = <<>>
    /\ response = <<>>
    /\ result = NoResult
    /\ modelCalls = 0
    /\ httpFailed = FALSE
    /\ toolLog = <<>>
    /\ writes = <<>>
    /\ stdout = <<>>
    /\ exitCode = -1

InitAgent ==
    /\ pc = "main"
    /\ file \in InitialFiles
    /\ AgentFresh

\* main with no argument: log.Fatalf("Usage: ...")
MainUsage ==
    /\ pc = "main"
    /\ pc' = "exit"
    /\ exitCode' = 1
    /\ Tools' = AddTool(AddTool(AddTool(NewAgent, CalculatorTool), WebSearchTool),
                        ChrisTantiTool)
    /\ UNCHANGED <<userInput, file, history, loaded, i, prompt, response, result,
                   modelCalls, httpFailed, toolLog, writes, stdout>>
    /\ UNCHANGED nonAgent

\* main up to the call of agent.Run: NewAgent, three AddTool calls, os.Args
MainSetup ==
    /\ pc = "main"
    /\ \E u \in UserInputs : userInput' = u
    /\ Tools' = AddTool(AddTool(AddTool(NewAgent, CalculatorTool), WebSearchTool),
                        ChrisTantiTool)
    /\ pc' = "run"
    /\ UNCHANGED <<file, history, loaded, i, prompt, response, result,
                   modelCalls, httpFailed, toolLog, writes, stdout, exitCode>>
    /\ UNCHANGED nonAgent

\* a trigger test that compares the raw input, without strings.ToLower
TriggeredCaseSensitive(input) == ContainsPhrase(input)

\* the trigger test of Run: strings.Contains(strings.ToLower(userInput), "chris tanti")
Triggered(input) == ContainsPhrase(ToLower(input))

\* Run, lines 128-132: load the history
RunLoad ==
    /\ pc = "run"
    /\ LET h == GetConversationHistory(file)
       IN  IF h.failed
           THEN /\ result' = Err(h.err)
                /\ pc' = "returned"
                /\ UNCHANGED <<history, loaded>>
           ELSE /\ history' = h.out
                /\ loaded' = h.out
                /\ pc' = IF Triggered(userInput) THEN "shortcut" ELSE "loop"
                /\ UNCHANGED result
    /\ UNCHANGED <<Tools, userInput, file, i, prompt, response,
                   modelCalls, httpFailed, toolLog, writes, stdout, exitCode>>
    /\ UNCHANGED nonAgent

\* Run, lines 135-146: the trigger phrase routes to the chris_tanti tool.  A
\* name the map does not hold yields the zero Tool, whose Function is nil:
\* calling it panics (exit status 2)
RunShortCircuit ==
    /\ pc = "shortcut"
    /\ LET args == [NoArgs EXCEPT !.has = {"query"}, !.query = userInput]
       IN  IF <<"chris_tanti">> \in DOMAIN Tools
           THEN LET r == CallFunction(Tools[<<"chris_tanti">>], args)
                IN  /\ toolLog' = Append(toolLog,
                           [name |-> <<"chris_tanti">>, args |-> args, step |-> 0,
                            ok |-> ~r.failed, obs |-> <<>>])
                    /\ result' = IF r.failed THEN Err(r.err)
                                 ELSE [answer |-> r.out, failed |-> FALSE, err |-> <<>>]
                    /\ pc' = "returned"
                    /\ UNCHANGED exitCode
           ELSE /\ pc' = "exit"
                /\ exitCode' = 2
                /\ UNCHANGED <<toolLog, result>>
    /\ UNCHANGED <<Tools, userInput, file, history, loaded, i, prompt, response,
                   modelCalls, httpFailed, writes, stdout>>
    /\ UNCHANGED nonAgent

\* Run, lines 151-157: build the prompt and call the model
LoopPlan ==
    /\ pc = "loop"
    /\ i < MaxSteps
    /\ \E order \in RangeOrders(Tools), http \in HttpOutcomes :
          LET r == CallOllama(http)
          IN  /\ prompt' = GeneratePrompt(Tools, order, history, userInput)
              /\ modelCalls' = modelCalls + 1
              /\ IF r.failed
                 THEN /\ result' = Err(r.err)
                      /\ pc' = "returned"
                      /\ UNCHANGED response
                 ELSE /\ response' = r.out
                      /\ pc' = "act"
                      /\ UNCHANGED result
              /\ httpFailed' = (httpFailed \/ http.kind # "ok")
    /\ UNCHANGED <<Tools, userInput, file, history, loaded, i, toolLog, writes,
                   stdout, exitCode>>
    /\ UNCHANGED nonAgent

\* a failed tool leaves no turn behind
ObservationSilent(r) ==
    IF r.failed THEN <<>> ELSE <<"\nObservation: ">> \o r.out

\* the turn Run appends after a tool has run (lines 192-198)
Observation(r) ==
    IF r.failed
    THEN <<"\nObservation: Tool execution failed with error: ">> \o r.err
    ELSE <<"\nObservation: ">> \o r.out

\* a final turn written without its speaker
AssistantTurnUnmarked(answer) == answer

\* the turn Run appends for the final answer (line 164)
AssistantTurn(answer) == <<"\nAssistant: ">> \o answer

\* history = turn: the assignment replaces what was there
AppendTurnReplaces(hist, turn) == turn

\* history += turn
AppendTurn(hist, turn) == hist \o turn

NoActionMsg  == <<"could not find a valid tool action in the LLM's response">>
BadJSONMsg   == <<"failed to unmarshal tool invocation JSON">>
ExhaustedMsg == <<"agent failed to find a final answer within the maximum number of steps">>
UnknownToolMsg(name) == <<"unknown tool: ">> \o name

\* an interpreter that takes a response with no tool call as the final answer
InterpretGuessesFinal(resp, tools) ==
    IF HasPrefix(resp, FA)
    THEN [kind |-> "final", answer |-> TrimSpace(TrimPrefix(resp, FA)),
          err |-> <<>>, call |-> BadJSON]
    ELSE LET matches  == FindMatch(resp)
             toolCall == Unmarshal(matches)
         IN  IF matches = <<>>
             THEN [kind |-> "final", answer |-> TrimSpace(resp), err |-> <<>>, call |-> BadJSON]
             ELSE IF ~toolCall.ok
             THEN [kind |-> "error", answer |-> <<>>, err |-> BadJSONMsg, call |-> BadJSON]
             ELSE IF toolCall.Name \notin DOMAIN tools
             THEN [kind |-> "error", answer |-> <<>>,
                   err |-> UnknownToolMsg(toolCall.Name), call |-> toolCall]
             ELSE [kind |-> "tool", answer |-> <<>>, err |-> <<>>, call |-> toolCall]

\* an interpreter that reports an unregistered name as a missing action
InterpretUnknownAsNoAction(resp, tools) ==
    IF HasPrefix(resp, FA)
    THEN [kind |-> "final", answer |-> TrimSpace(TrimPrefix(resp, FA)),
          err |-> <<>>, call |-> BadJSON]
    ELSE LET matches  == FindMatch(resp)
             toolCall == Unmarshal(matches)
         IN  IF matches = <<>>
             THEN [kind |-> "error", answer |-> <<>>, err |-> NoActionMsg, call |-> BadJSON]
             ELSE IF ~toolCall.ok
             THEN [kind |-> "error", answer |-> <<>>, err |-> BadJSONMsg, call |-> BadJSON]
             ELSE IF toolCall.Name \notin DOMAIN tools
             THEN [kind |-> "error", answer |-> <<>>, err |-> NoActionMsg, call |-> toolCall]
             ELSE [kind |-> "tool", answer |-> <<>>, err |-> <<>>, call |-> toolCall]

\* Run, lines 162-187: what the response asks for.  kind is "final" (with the
\* answer), "error" (with the error Run returns) or "tool" (with the call)
Interpret(resp, tools) ==
    IF HasPrefix(resp, FA)
    THEN [kind |-> "final", answer |-> TrimSpace(TrimPrefix(resp, FA)),
          err |-> <<>>, call |-> BadJSON]
    ELSE LET matches  == FindMatch(resp)
             toolCall == Unmarshal(matches)
         IN  IF matches = <<>>
             THEN [kind |-> "error", answer |-> <<>>, err |-> NoActionMsg, call |-> BadJSON]
             ELSE IF ~toolCall.ok
             THEN [kind |-> "error", answer |-> <<>>, err |-> BadJSONMsg, call |-> BadJSON]
             ELSE IF toolCall.Name \notin DOMAIN tools
             THEN [kind |-> "error", answer |-> <<>>,
                   err |-> UnknownToolMsg(toolCall.Name), call |-> toolCall]
             ELSE [kind |-> "tool", answer |-> <<>>, err |-> <<>>, call |-> toolCall]

\* a loop that calls a tool a second time when its first call failed
LoopActRetries ==
    /\ pc = "act"
    /\ LET step == Interpret(response, Tools)
       IN  IF step.kind = "final"
           THEN LET h == AppendTurn(history, AssistantTurn(step.answer))
                IN  /\ history' = h
                    /\ file' = SaveConversationHistory(file, h)
                    /\ writes' = Append(writes, h)
                    /\ result' = [answer |-> step.answer, failed |-> FALSE, err |-> <<>>]
                    /\ pc' = "returned"
                    /\ UNCHANGED <<i, toolLog, prompt, response>>
           ELSE IF step.kind = "error"
           THEN /\ result' = Err(step.err)
                /\ pc' = "returned"
                /\ UNCHANGED <<history, file, writes, i, toolLog, prompt, response>>
           ELSE LET r   == CallFunction(Tools[step.call.Name], step.call.Args)
                    obs == Observation(r)
                    h   == AppendTurn(history, obs)
                    e   == [name |-> step.call.Name, args |-> step.call.Args,
                            step |-> i + 1, ok |-> ~r.failed, obs |-> obs]
                IN  /\ toolLog' = IF r.failed THEN toolLog \o <<e, e>> ELSE Append(toolLog, e)
                    /\ history' = h
                    /\ file' = SaveConversationHistory(file, h)
                    /\ writes' = Append(writes, h)
                    /\ i' = i + 1
                    /\ pc' = "loop"
                    /\ prompt' = <<>>
                    /\ response' = <<>>
                    /\ UNCHANGED result
    /\ UNCHANGED <<Tools, userInput, loaded, modelCalls, httpFailed, stdout, exitCode>>
    /\ UNCHANGED nonAgent

\* Run, lines 162-201: act on the response: final answer, failure, or tool
LoopAct ==
    /\ pc = "act"
    /\ LET step == Interpret(response, Tools)
       IN  IF step.kind = "final"
           THEN LET h == AppendTurn(history, AssistantTurn(step.answer))
                IN  /\ history' = h
                    /\ file' = SaveConversationHistory(file, h)
                    /\ writes' = Append(writes, h)
                    /\ result' = [answer |-> step.answer, failed |-> FALSE, err |-> <<>>]
                    /\ pc' = "returned"
                    /\ UNCHANGED <<i, toolLog, prompt, response>>
           ELSE IF step.kind = "error"
           THEN /\ result' = Err(step.err)
                /\ pc' = "returned"
                /\ UNCHANGED <<history, file, writes, i, toolLog, prompt, response>>
           ELSE LET r   == CallFunction(Tools[step.call.Name], step.call.Args)
                    obs == Observation(r)
                    h   == AppendTurn(history, obs)
                IN  /\ toolLog' = Append(toolLog,
                           [name |-> step.call.Name, args |-> step.call.Args,
                            step |-> i + 1, ok |-> ~r.failed, obs |-> obs])
                    /\ history' = h
                    /\ file' = SaveConversationHistory(file, h)
                    /\ writes' = Append(writes, h)
                    /\ i' = i + 1
                    /\ pc' = "loop"
                    /\ prompt' = <<>>
                    /\ response' = <<>>
                    /\ UNCHANGED result
    /\ UNCHANGED <<Tools, userInput, loaded, modelCalls, httpFailed, stdout, exitCode>>
    /\ UNCHANGED nonAgent

\* a loop that falls out of its last iteration with an empty answer and no error
LoopExhaustedSilent ==
    /\ pc = "loop"
    /\ i >= MaxSteps
    /\ result' = NoResult
    /\ pc' = "returned"
    /\ UNCHANGED <<Tools, userInput, file, history, loaded, i, prompt, response,
                   modelCalls, httpFailed, toolLog, writes, stdout, exitCode>>
    /\ UNCHANGED nonAgent

\* Run, line 204: the loop ran MaxSteps times without a final answer
LoopExhausted ==
    /\ pc = "loop"
    /\ i >= MaxSteps
    /\ result' = Err(ExhaustedMsg)
    /\ pc' = "returned"
    /\ UNCHANGED <<Tools, userInput, file, history, loaded, i, prompt, response,
                   modelCalls, httpFailed, toolLog, writes, stdout, exitCode>>
    /\ UNCHANGED nonAgent

\* main, lines 336-342: log.Fatalf on an error, else print the answer
MainFinish ==
    /\ pc = "returned"
    /\ IF result.failed
       THEN /\ exitCode' = 1
            /\ UNCHANGED stdout
       ELSE /\ exitCode' = 0
            /\ stdout' = <<"\n--- Final Answer ---\n">> \o result.answer \o <<"\n">>
    /\ pc' = "exit"
    /\ prompt' = <<>>
    /\ response' = <<>>
    /\ UNCHANGED <<Tools, userInput, file, history, loaded, i, result,
                   modelCalls, httpFailed, toolLog, writes>>
    /\ UNCHANGED nonAgent


----------------------------------------------------------------------------
(* Two runs of Agent.Run on one agent, side by side *)

\* the registry main builds
MainTools == AddTool(AddTool(AddTool(NewAgent, CalculatorTool), WebSearchTool),
                     ChrisTantiTool)

Sessions == {1, 2}

Paths == {"a.json", "b.json"}

\* both runs are given the same path
SessionPathShared(k) == "a.json"

\* the historyFilePath argument of run k
SessionPath(k) == IF k = 1 THEN "a.json" ELSE "b.json"

\* what the two files hold before either run starts
FilesInit ==
    [p \in Paths |->
        IF p = "a.json"
        THEN [exists |-> FALSE, readable |-> TRUE, data |-> <<>>]
        ELSE [exists |-> TRUE, readable |-> TRUE,
              data |-> <<"\nAssistant: ", "an earlier answer">>]]

SessInputs == { <<"What is 2 plus 3?">>, <<"CHRIS TANTI">> }

\* what the model server does in a side-by-side run
SessOutcomes ==
    { [kind |-> "status", response |-> <<>>],
      [kind |-> "ok", response |-> <<FA, SP, "4", SP, "2", SP>>],
      [kind |-> "ok", response |-> <<OPEN, "calculator", AC, "divide", NumsTok(1, 0), CLOSE>>],
      [kind |-> "ok", response |->
          <<OPEN, "calculator", AC, "add", NumsTok(2, 3), CLOSE, "Thought: done.">>] }

NoHttp == [kind |-> "none", response |-> <<>>]

\* the parameters and locals of one call of Run; trace lists the HTTP
\* exchanges the call has had
SessLocals(u) ==
    [pc |-> "run", userInput |-> u, history |-> <<>>, loaded |-> <<>>, i |-> 0,
     response |-> <<>>, result |-> NoResult, toolLog |-> <<>>, writes |-> <<>>,
     modelCalls |-> 0, trace |-> <<>>]

\* one step of Run on the locals s and the file f of its path: the new locals
\* and the new file.  The steps are those of RunLoad, RunShortCircuit,
\* LoopPlan, LoopAct and LoopExhausted
RunStep(s, f, tools, http) ==
    CASE s.pc = "run" ->
           LET h == GetConversationHistory(f)
           IN  IF h.failed
               THEN [s |-> [s EXCEPT !.result = Err(h.err), !.pc = "returned"], f |-> f]
               ELSE [s |-> [s EXCEPT !.history = h.out, !.loaded = h.out,
                                     !.pc = IF Triggered(s.userInput)
                                            THEN "shortcut" ELSE "loop"],
                     f |-> f]
      [] s.pc = "shortcut" ->
           LET args == [NoArgs EXCEPT !.has = {"query"}, !.query = s.userInput]
           IN  IF <<"chris_tanti">> \in DOMAIN tools
               THEN LET r == CallFunction(tools[<<"chris_tanti">>], args)
                    IN  [s |-> [s EXCEPT
                                  !.toolLog = Append(@,
                                      [name |-> <<"chris_tanti">>, args |-> args,
                                       step |-> 0, ok |-> ~r.failed, obs |-> <<>>]),
                                  !.result = IF r.failed THEN Err(r.err)
                                             ELSE [answer |-> r.out, failed |-> FALSE,
                                                   err |-> <<>>],
                                  !.pc = "returned"],
                         f |-> f]
               ELSE [s |-> [s EXCEPT !.pc = "panic"], f |-> f]
      [] s.pc = "loop" /\ s.i >= MaxSteps ->
           [s |-> [s EXCEPT !.result = Err(ExhaustedMsg), !.pc = "returned"], f |-> f]
      [] s.pc = "loop" /\ s.i < MaxSteps ->
           LET r == CallOllama(http)
           IN  IF r.failed
               THEN [s |-> [s EXCEPT !.modelCalls = @ + 1, !.trace = Append(@, http),
                                     !.result = Err(r.err), !.pc = "returned"],
                     f |-> f]
               ELSE [s |-> [s EXCEPT !.modelCalls = @ + 1, !.trace = Append(@, http),
                                     !.response = r.out, !.pc = "act"],
                     f |-> f]
      [] s.pc = "act" ->
           LET step == Interpret(s.response, tools)
           IN  IF step.kind = "final"
               THEN LET h == AppendTurn(s.history, AssistantTurn(step.answer))
                    IN  [s |-> [s EXCEPT !.history = h, !.writes = Append(@, h),
                                         !.result = [answer |-> step.answer,
                                                     failed |-> FALSE, err |-> <<>>],
                                         !.pc = "returned"],
                         f |-> SaveConversationHistory(f, h)]
               ELSE IF step.kind = "error"
               THEN [s |-> [s EXCEPT !.result = Err(step.err), !.pc = "returned"], f |-> f]
               ELSE LET r   == CallFunction(tools[step.call.Name], step.call.Args)
                        obs == Observation(r)
                        h   == AppendTurn(s.history, obs)
                    IN  [s |-> [s EXCEPT
                                  !.toolLog = Append(@,
                                      [name |-> step.call.Name, args |-> step.call.Args,
                                       step |-> s.i + 1, ok |-> ~r.failed, obs |-> obs]),
                                  !.history = h, !.writes = Append(@, h),
                                  !.i = @ + 1, !.response = <<>>, !.pc = "loop"],
                         f |-> SaveConversationHistory(f, h)]
      [] OTHER -> [s |-> s, f |-> f]

SessDone(s) == s.pc \in {"returned", "panic"}

\* one of the two runs takes its next step
SessStep ==
    /\ pc = "sessions"
    /\ \E k \in Sessions :
          LET s == sess[k]
              f == files[SessionPath(k)]
          IN  /\ ~SessDone(s)
              /\ \E http \in (IF s.pc = "loop" /\ s.i < MaxSteps
                              THEN SessOutcomes ELSE {NoHttp}) :
                    LET n == RunStep(s, f, Tools, http)
                    IN  /\ sess' = [sess EXCEPT ![k] = n.s]
                        /\ files' = [files EXCEPT ![SessionPath(k)] = n.f]
    /\ UNCHANGED <<agentVars, promptLog, spawned, disk, chat, calc>>

----------------------------------------------------------------------------
(* GeneratePrompt applied repeatedly to one agent, history and input *)

\* the agent NewAgent and one AddTool call per tool of S build
RegistryOf(S) == [n \in {t.Name : t \in S} |-> CHOOSE t \in S : t.Name = n]

\* every agent NewAgent and AddTool calls can build from the three tools
AllRegistries ==
    {RegistryOf(S) : S \in SUBSET {CalculatorTool, WebSearchTool, ChrisTantiTool}}

\* calls of GeneratePrompt made on the same arguments
MaxPromptCalls == 2

\* agents built by NewAgent and AddTool calls
Registries ==
    { NewAgent,
      AddTool(NewAgent, CalculatorTool),
      AddTool(AddTool(NewAgent, CalculatorTool), WebSearchTool),
      AddTool(AddTool(AddTool(NewAgent, CalculatorTool), WebSearchTool), ChrisTantiTool) }

Histories ==
    { <<>>,
      <<"\nAssistant: ", "an earlier answer">>,
      <<"\nObservation: ", "5.00", "\nAssistant: ", "5">> }

\* a.GeneratePrompt(history, userInput), called once more
PromptCall ==
    /\ pc = "prompt"
    /\ Len(promptLog) < MaxPromptCalls
    /\ \E order \in RangeOrders(Tools) :
          promptLog' = Append(promptLog, GeneratePrompt(Tools, order, history, userInput))
    /\ UNCHANGED <<agentVars, spawned, disk, chat, harness>>

----------------------------------------------------------------------------
(* The calculator Function applied to one argument map *)

\* operation names a call may carry
CalcOps ==
    { <<"add">>, <<"subtract">>, <<"multiply">>, <<"divide">>,
      <<"modulo">>, <<"ADD">>, <<>> }

\* argument maps: the three arguments present, or one of them absent
CalcInputs ==
    { CalcArgs(op, a, b) : op \in CalcOps, a \in Nums, b \in Nums }
        \cup { [CalcArgs(<<"add">>, 2, 3) EXCEPT !.has = @ \ {m}] :
                 m \in {"operation", "num1", "num2"} }

CalcIdle == [args |-> NoArgs, called |-> FALSE, r |-> Ok(<<>>)]

\* tool.Function(args) on the calculator tool
CalcCall ==
    /\ pc = "calc"
    /\ ~calc.called
    /\ calc' = [calc EXCEPT !.called = TRUE, !.r = Calculator(calc.args)]
    /\ UNCHANGED <<agentVars, promptLog, spawned, disk, chat, sess, files>>

----------------------------------------------------------------------------
(* src/main.go: the disk agent *)

\* usage above which executeToolCall prunes: if usage > 75
PruneThreshold == 75

Lit(t)       == [text |-> t, from |-> "source"]
FromModel(t) == [text |-> t, from |-> "model"]

DfCommand    == <<Lit("df"), Lit("-h"), Lit("/")>>
WmicCommand  == <<Lit("cmd"), Lit("/c"), Lit("wmic logicaldisk get size,freespace,caption")>>
PruneCommand == <<Lit("docker-compose"), Lit("system"), Lit("prune"), Lit("-f")>>

RunDiskAgentJSON == "{\"tool_name\": \"run_disk_agent\", \"parameters\": {}}"
ExtraFieldJSON   == "{\"tool_name\": \"run_disk_agent\", \"command\": \"rm -rf /\"}"
OtherToolJSON    == "{\"tool_name\": \"shell\", \"parameters\": {}}"
NoNameJSON       == "{}"
BadParamsJSON    == "{\"tool_name\": \"run_disk_agent\", \"parameters\": \"all\"}"
NotJSON          == "I will check the disk."

\* what the model server may put in the content field
DiskContents ==
    {"", RunDiskAgentJSON, ExtraFieldJSON, OtherToolJSON, NoNameJSON, BadParamsJSON, NotJSON}

\* json.Unmarshal([]byte(toolCallJSON), &callData): parameters must be an
\* object, fields the struct does not have are dropped
DecodeToolCall(c) ==
    CASE c = RunDiskAgentJSON -> [ok |-> TRUE,  ToolName |-> "run_disk_agent"]
      [] c = ExtraFieldJSON   -> [ok |-> TRUE,  ToolName |-> "run_disk_agent"]
      [] c = OtherToolJSON    -> [ok |-> TRUE,  ToolName |-> "shell"]
      [] c = NoNameJSON       -> [ok |-> TRUE,  ToolName |-> ""]
      [] OTHER                -> [ok |-> FALSE, ToolName |-> ""]

\* what `df -h /` may do: fail, or print lines; field 5 of line 2 is the use%
DfOutcomes ==
    { [failed |-> TRUE,  lines |-> 0, fields |-> 0, numeric |-> FALSE, pct |-> 0],
      [failed |-> FALSE, lines |-> 1, fields |-> 0, numeric |-> FALSE, pct |-> 0],
      [failed |-> FALSE, lines |-> 3, fields |-> 4, numeric |-> TRUE,  pct |-> 90],
      [failed |-> FALSE, lines |-> 3, fields |-> 6, numeric |-> FALSE, pct |-> 90] }
        \cup { [failed |-> FALSE, lines |-> 3, fields |-> 6, numeric |-> TRUE, pct |-> u] :
                 u \in {0, 74, 75, 76, 100} }

\* lines 90-97: usage stays 0 unless line 2 has five fields and Atoi succeeds
ParseDf(o) ==
    IF o.lines > 1 /\ o.fields >= 5 /\ o.numeric THEN o.pct ELSE 0

\* what wmic may do: fail, or print the first disk line's second and third
\* fields (read by the code as size and free)
WmicOutcomes ==
    { [failed |-> TRUE,  hasDisk |-> FALSE, size |-> 0, free |-> 0],
      [failed |-> FALSE, hasDisk |-> FALSE, size |-> 0, free |-> 0],
      [failed |-> FALSE, hasDisk |-> TRUE,  size |-> 0, free |-> 0],
      [failed |-> FALSE, hasDisk |-> TRUE,  size |-> 100, free |-> 20],
      [failed |-> FALSE, hasDisk |-> TRUE,  size |-> 100, free |-> 25],
      [failed |-> FALSE, hasDisk |-> TRUE,  size |-> 100, free |-> 24],
      [failed |-> FALSE, hasDisk |-> TRUE,  size |-> 8, free |-> 1] }

\* lines 109-122: int(((size - free) / size) * 100), truncated
ParseWmic(o) ==
    IF o.hasDisk /\ o.size > 0 THEN ((o.size - o.free) * 100) \div o.size ELSE 0

DiskIdle == [content |-> "", goos |-> "", usage |-> 0, out |-> <<>>,
             result |-> "none", err |-> "none", printed |-> <<>>]

\* main, lines 182-227: ask the model; stop when the request fails, the
\* answer does not decode, or the content is empty
DiskMain ==
    /\ pc = "disk_main"
    /\ \E http \in {"post_error", "decode_error", "ok"}, c \in DiskContents :
          IF http # "ok" \/ c = ""
          THEN /\ pc' = "exit"
               /\ exitCode' = 0
               /\ UNCHANGED disk
          ELSE /\ pc' = "disk_exec"
               /\ disk' = [disk EXCEPT !.content = c]
               /\ UNCHANGED exitCode
    /\ UNCHANGED <<Tools, userInput, file, history, loaded, i, prompt, response, result,
                   modelCalls, httpFailed, toolLog, writes, stdout>>
    /\ UNCHANGED <<promptLog, spawned, chat, harness>>

\* executeToolCall, lines 64-131 and 171-178: decode the call, check the tool
\* name, measure the disk usage
DiskCheck ==
    /\ pc = "disk_exec"
    /\ LET callData == DecodeToolCall(disk.content)
       IN  IF ~callData.ok
           THEN /\ disk' = [disk EXCEPT !.result = "nil",
                                        !.err = "invalid JSON format for tool call"]
                /\ pc' = "disk_print"
                /\ UNCHANGED spawned
           ELSE IF callData.ToolName # "run_disk_agent"
           THEN /\ disk' = [disk EXCEPT !.result = "error", !.err = "unknown tool"]
                /\ pc' = "disk_print"
                /\ UNCHANGED spawned
           ELSE IF disk.goos = "linux"
           THEN \E o \in DfOutcomes :
                   /\ spawned' = Append(spawned, DfCommand)
                   /\ IF o.failed
                      THEN /\ disk' = [disk EXCEPT !.result = "nil",
                                                   !.err = "failed to check disk usage"]
                           /\ pc' = "disk_print"
                      ELSE /\ disk' = [disk EXCEPT !.usage = ParseDf(o)]
                           /\ pc' = "disk_decide"
           ELSE IF disk.goos = "windows"
           THEN \E o \in WmicOutcomes :
                   /\ spawned' = Append(spawned, WmicCommand)
                   /\ IF o.failed
                      THEN /\ disk' = [disk EXCEPT !.result = "nil",
                                                   !.err = "failed to check disk usage"]
                           /\ pc' = "disk_print"
                      ELSE /\ disk' = [disk EXCEPT !.usage = ParseWmic(o)]
                           /\ pc' = "disk_decide"
           ELSE /\ disk' = [disk EXCEPT !.result = "error", !.err = "unsupported OS"]
                /\ pc' = "disk_print"
                /\ UNCHANGED spawned
    /\ UNCHANGED <<agentLocals, promptLog, chat, harness>>

\* a test that also prunes at the threshold itself
NeedsPruneAtThreshold(usage) == usage >= PruneThreshold

\* the test of line 136
NeedsPrune(usage) == usage > PruneThreshold

\* executeToolCall, lines 133-170: prune when the usage is high
DiskDecide ==
    /\ pc = "disk_decide"
    /\ IF NeedsPrune(disk.usage)
       THEN \E pruneFailed \in BOOLEAN :
               /\ spawned' = Append(spawned, PruneCommand)
               /\ disk' = [disk EXCEPT
                     !.out = <<"Current disk usage", "Usage is high, starting Docker system prune.">>
                                \o (IF pruneFailed THEN <<"Error during prune">> ELSE <<>>)
                                \o <<"Docker prune complete.">>,
                     !.result = "success"]
       ELSE /\ disk' = [disk EXCEPT
                     !.out = <<"Current disk usage",
                               "Usage is within a safe limit. No action required.">>,
                     !.result = "success"]
            /\ UNCHANGED spawned
    /\ pc' = "disk_print"
    /\ UNCHANGED <<agentLocals, promptLog, chat, harness>>

\* main, lines 231-237: report the error, print the result
DiskPrint ==
    /\ pc = "disk_print"
    /\ disk' = [disk EXCEPT !.printed =
                   (IF disk.err # "none" THEN <<"Error executing tool">> ELSE <<>>)
                       \o <<"--- Result sent back to the LLM for final response ---">>]
    /\ pc' = "exit"
    /\ exitCode' = 0
    /\ UNCHANGED <<Tools, userInput, file, history, loaded, i, prompt, response, result,
                   modelCalls, httpFailed, toolLog, writes, stdout>>
    /\ UNCHANGED <<promptLog, spawned, chat, harness>>

----------------------------------------------------------------------------
(* src/unnamed/part_002: the interactive chat agent *)

\* user messages the modelled conversation may hold
MaxChatTurns == 2

\* the markdown fence (three backquotes), with and without the word json
FENCE    == "[fence]json"
FENCEEND == "[fence]"

Plan0 == "{\"text\": \"Nothing to run.\", \"actions\": []}"
Plan1 == "{\"text\": \"I can list the files.\", \"actions\": [{\"label\": \"list\", \"command\": \"ls -la\"}]}"
Plan2 == "{\"text\": \"Pick one.\", \"actions\": [{\"label\": \"list\", \"command\": \"ls -la\"}, {\"label\": \"clean\", \"command\": \"rm -rf ~/tmp\"}]}"

\* what the model may answer
ChatResponses ==
    { <<"You can use ls for that.">>,
      <<Plan0>>,
      <<Plan1>>,
      <<SP, Plan2, "\n">>,
      <<FENCE, "\n", Plan2, "\n", FENCEEND>>,
      <<FENCE, "\n", Plan1, "\n", FENCEEND, "\n">> }

\* strings.TrimSuffix(s, fence)
TrimSuffix(s, tok) ==
    IF Len(s) > 0 /\ s[Len(s)] = tok THEN SubSeq(s, 1, Len(s) - 1) ELSE s

\* lines 132-137: strip a markdown fence, then white space
CleanResponse(full) ==
    TrimSpace(IF HasPrefix(full, FENCE)
              THEN TrimSuffix(TrimPrefix(full, FENCE), FENCEEND)
              ELSE full)

NoPlan == [ok |-> FALSE, Text |-> "", Actions |-> <<>>]

\* json.Unmarshal([]byte(responseStr), &structuredResp)
DecodePlan(str) ==
    IF Len(str) # 1 THEN NoPlan
    ELSE CASE str[1] = Plan0 -> [ok |-> TRUE, Text |-> "Nothing to run.", Actions |-> <<>>]
           [] str[1] = Plan1 ->
                [ok |-> TRUE, Text |-> "I can list the files.",
                 Actions |-> <<[Label |-> "list", Command |-> "ls -la"]>>]
           [] str[1] = Plan2 ->
                [ok |-> TRUE, Text |-> "Pick one.",
                 Actions |-> <<[Label |-> "list", Command |-> "ls -la"],
                               [Label |-> "clean", Command |-> "rm -rf ~/tmp"]>>]
           [] OTHER -> NoPlan

\* lines the user may type when asked to choose
ChoiceLines == {"", "0", "1", "2", "3", "x"}

\* strconv.Atoi
Atoi(line) ==
    CASE line = "0" -> [ok |-> TRUE, n |-> 0]
      [] line = "1" -> [ok |-> TRUE, n |-> 1]
      [] line = "2" -> [ok |-> TRUE, n |-> 2]
      [] line = "3" -> [ok |-> TRUE, n |-> 3]
      [] OTHER      -> [ok |-> FALSE, n |-> 0]

Message(role, content) == [Role |-> role, Content |-> content]

SystemMessage == Message("system", <<"You are a helpful assistant. ...">>)

\* main's locals: messages, and per iteration fullResponse, the error of the
\* Chat call, the decoded actions and the choice line read
ChatIdle == [messages |-> <<>>, fullResponse |-> <<>>, callErr |-> FALSE,
             actions |-> <<>>, choiceStr |-> "", turns |-> 0]

ChatStart == [ChatIdle EXCEPT !.messages = <<SystemMessage>>]

\* a selection that uses the number typed as a zero-based index
SelectedActionZeroBased(actions, choice) == actions[IF choice > 1 THEN choice - 1 ELSE 1]

\* line 154: structuredResp.Actions[choice-1], the choice-th action
SelectedAction(actions, choice) == actions[choice]

\* line 156: exec.Command("bash", "-c", selectedAction.Command)
ShellCommand(action) == <<Lit("bash"), Lit("-c"), FromModel(action.Command)>>

\* main, lines 83-99: read a line; stop at end of input, "exit" or "quit"
ChatRead ==
    /\ pc = "chat_read"
    /\ \E line \in {"<eof>", "exit", "quit", "list my files"} :
          IF line \in {"<eof>", "exit", "quit"} \/ chat.turns >= MaxChatTurns
          THEN /\ pc' = "exit"
               /\ exitCode' = 0
               /\ UNCHANGED chat
          ELSE /\ chat' = [chat EXCEPT
                              !.messages = Append(@, Message("user", <<line>>)),
                              !.fullResponse = <<>>,
                              !.callErr = FALSE,
                              !.actions = <<>>,
                              !.choiceStr = "",
                              !.turns = @ + 1]
               /\ pc' = "chat_call"
               /\ UNCHANGED exitCode
    /\ UNCHANGED <<Tools, userInput, file, history, loaded, i, prompt, response, result,
                   modelCalls, httpFailed, toolLog, writes, stdout>>
    /\ UNCHANGED <<promptLog, spawned, disk, harness>>

\* main, lines 107-146 and 167-176: call the model; on an error go back to
\* reading; show the plan's actions, or record the answer
ChatCall ==
    /\ pc = "chat_call"
    /\ \E failed \in BOOLEAN, r \in ChatResponses :
          IF failed
          THEN /\ pc' = "chat_read"
               /\ chat' = [chat EXCEPT !.callErr = TRUE]
          ELSE LET structuredResp == DecodePlan(CleanResponse(r))
               IN  IF structuredResp.ok /\ Len(structuredResp.Actions) > 0
                   THEN /\ chat' = [chat EXCEPT !.fullResponse = r,
                                                !.actions = structuredResp.Actions]
                        /\ pc' = "chat_choose"
                   ELSE /\ chat' = [chat EXCEPT
                                       !.fullResponse = r,
                                       !.messages = Append(@, Message("assistant", r))]
                        /\ pc' = "chat_read"
    /\ UNCHANGED <<agentLocals, promptLog, spawned, disk, harness>>

\* main, lines 149-166 and 173-176: read the choice, run the chosen command,
\* record the answer
ChatChoose ==
    /\ pc = "chat_choose"
    /\ \E choiceStr \in ChoiceLines :
          LET choice == Atoi(choiceStr)
          IN  /\ IF choiceStr # "" /\ choice.ok /\ choice.n > 0
                       /\ choice.n <= Len(chat.actions)
                 THEN spawned' = Append(spawned,
                                   ShellCommand(SelectedAction(chat.actions, choice.n)))
                 ELSE UNCHANGED spawned
              /\ chat' = [chat EXCEPT
                     !.messages = Append(@, Message("assistant", chat.fullResponse)),
                     !.choiceStr = choiceStr]
    /\ pc' = "chat_read"
    /\ UNCHANGED <<agentLocals, promptLog, disk, harness>>

----------------------------------------------------------------------------
(* Specifications *)

vars == <<agentVars, nonAgent>>

HarnessIdle ==
    /\ calc = CalcIdle
    /\ sess = <<>>
    /\ files = <<>>

OthersIdle ==
    /\ promptLog = <<>>
    /\ spawned = <<>>
    /\ disk = DiskIdle
    /\ chat = ChatIdle
    /\ HarnessIdle

\* the plan/act/observe agent, from the start of its main
Init == InitAgent /\ OthersIdle

Next ==
    \/ MainUsage
    \/ MainSetup
    \/ RunLoad
    \/ RunShortCircuit
    \/ LoopPlan
    \/ LoopAct
    \/ LoopExhausted
    \/ MainFinish

Spec == Init /\ [][Next]_vars

\* GeneratePrompt on every registry, history and input
InitPrompt ==
    /\ pc = "prompt"
    /\ Tools \in Registries
    /\ history \in Histories
    /\ userInput \in UserInputs \cup {<<>>}
    /\ file = [exists |-> FALSE, readable |-> TRUE, data |-> <<>>]
    /\ loaded = <<>>
    /\ i = 0
    /\ prompt = <<>>
    /\ response = <<>>
    /\ result = NoResult
    /\ modelCalls = 0
    /\ httpFailed = FALSE
    /\ toolLog = <<>>
    /\ writes = <<>>
    /\ stdout = <<>>
    /\ exitCode = -1
    /\ OthersIdle

NextPrompt == PromptCall

SpecPrompt == InitPrompt /\ [][NextPrompt]_vars

\* the two programs that start external processes, each from its main
InitExec ==
    /\ file = [exists |-> FALSE, readable |-> TRUE, data |-> <<>>]
    /\ AgentFresh
    /\ promptLog = <<>>
    /\ spawned = <<>>
    /\ HarnessIdle
    /\ \/ /\ pc = "disk_main"
          /\ \E os \in {"linux", "windows", "darwin"} : disk = [DiskIdle EXCEPT !.goos = os]
          /\ chat = ChatIdle
       \/ /\ pc = "chat_read"
          /\ disk = DiskIdle
          /\ chat = ChatStart

NextExec ==
    \/ DiskMain
    \/ DiskCheck
    \/ DiskDecide
    \/ DiskPrint
    \/ ChatRead
    \/ ChatCall
    \/ ChatChoose

SpecExec == InitExec /\ [][NextExec]_vars

\* two runs of Agent.Run on the agent main builds, each with its own path
InitSessions ==
    /\ pc = "sessions"
    /\ Tools = MainTools
    /\ file = [exists |-> FALSE, readable |-> TRUE, data |-> <<>>]
    /\ userInput = <<>>
    /\ history = <<>>
    /\ loaded = <<>>
    /\ i = 0
    /\ prompt = <<>>
    /\ response = <<>>
    /\ result = NoResult
    /\ modelCalls = 0
    /\ httpFailed = FALSE
    /\ toolLog = <<>>
    /\ writes = <<>>
    /\ stdout = <<>>
    /\ exitCode = -1
    /\ promptLog = <<>>
    /\ spawned = <<>>
    /\ disk = DiskIdle
    /\ chat = ChatIdle
    /\ calc = CalcIdle
    /\ \E u1 \in SessInputs, u2 \in SessInputs :
          sess = [k \in Sessions |-> SessLocals(IF k = 1 THEN u1 ELSE u2)]
    /\ files = FilesInit

NextSessions == SessStep

SpecSessions == InitSessions /\ [][NextSessions]_vars

\* Agent.Run on every agent of AllRegistries and every input
InitRegistry ==
    /\ pc = "run"
    /\ Tools \in AllRegistries
    /\ userInput \in UserInputs
    /\ file = [exists |-> FALSE, readable |-> TRUE, data |-> <<>>]
    /\ history = <<>>
    /\ loaded = <<>>
    /\ i = 0
    /\ prompt = <<>>
    /\ response = <<>>
    /\ result = NoResult
    /\ modelCalls = 0
    /\ httpFailed = FALSE
    /\ toolLog = <<>>
    /\ writes = <<>>
    /\ stdout = <<>>
    /\ exitCode = -1
    /\ OthersIdle

NextRegistry ==
    \/ RunLoad
    \/ RunShortCircuit
    \/ LoopPlan
    \/ LoopAct
    \/ LoopExhausted

SpecRegistry == InitRegistry /\ [][NextRegistry]_vars

\* the calculator Function on every argument map of CalcInputs
InitCalc ==
    /\ pc = "calc"
    /\ file = [exists |-> FALSE, readable |-> TRUE, data |-> <<>>]
    /\ AgentFresh
    /\ promptLog = <<>>
    /\ spawned = <<>>
    /\ disk = DiskIdle
    /\ chat = ChatIdle
    /\ \E x \in CalcInputs : calc = [CalcIdle EXCEPT !.args = x]
    /\ sess = <<>>
    /\ files = <<>>

NextCalc == CalcCall

SpecCalc == InitCalc /\ [][NextCalc]_vars

----------------------------------------------------------------------------
(* Properties of Agent.Run and main (src/experimemt/main.go) *)

Last(q) == q[Len(q)]

Returned == pc \in {"returned", "exit"}

\* the loop ran MaxSteps iterations and each one dispatched a tool
FiveToolSteps ==
    /\ Len(toolLog) = MaxSteps
    /\ modelCalls = MaxSteps
    /\ \A k \in 1..Len(toolLog) : toolLog[k].step = k

\* C1: Run never makes more than 5 model calls; when all 5 responses led to a
\* dispatched tool call, Run returns the error "agent failed to find a final
\* answer within the maximum number of steps" with an empty answer, that error
\* is returned in no other case, and main prints nothing and exits with 1.
C1_MaxStepsExceeded ==
    /\ modelCalls <= MaxSteps
    /\ (Returned /\ FiveToolSteps) =>
          /\ result.failed
          /\ result.err = ExhaustedMsg
          /\ result.answer = <<>>
    /\ (pc = "exit" /\ FiveToolSteps) => (stdout = <<>> /\ exitCode = 1)
    /\ (result.err = ExhaustedMsg) => FiveToolSteps

C1_Witness ==
    /\ pc = "exit"
    /\ FiveToolSteps
    /\ result.err = ExhaustedMsg
    /\ stdout = <<>>

\* the response decodes to a tool call whose name the registry does not hold
DecodesUnknownTool(resp) ==
    /\ ~HasPrefix(resp, FA)
    /\ FindMatch(resp) # <<>>
    /\ Unmarshal(FindMatch(resp)).ok
    /\ Unmarshal(FindMatch(resp)).Name \notin DOMAIN Tools

\* C2 as stated: on a tool call that names an unregistered tool the loop
\* records an observation in the history and goes on; the run does not end.
C2_UnknownToolObserved ==
    [][(pc = "act" /\ DecodesUnknownTool(response))
          => (pc' = "loop" /\ Len(history') > Len(history))]_vars

\* C2 amended: on a tool call that names an unregistered tool Run returns at
\* that step with the error "unknown tool: <name>" and no answer; no tool is
\* invoked, nothing is appended to the history, the file is not written, and
\* main ends the process with status 1 without printing an answer.
C2_UnknownToolEndsRun ==
    /\ [][(pc = "act" /\ DecodesUnknownTool(response)) =>
            /\ pc' = "returned"
            /\ result'.failed
            /\ result'.answer = <<>>
            /\ result'.err = UnknownToolMsg(Unmarshal(FindMatch(response)).Name)
            /\ UNCHANGED <<history, file, writes, toolLog, modelCalls>>]_vars
    /\ [][(pc = "returned" /\ DecodesUnknownTool(response)) =>
            (pc' = "exit" /\ exitCode' = 1 /\ stdout' = <<>>)]_vars

C2_Witness ==
    /\ pc = "exit"
    /\ exitCode = 1
    /\ result.err = UnknownToolMsg(<<"shell">>)
    /\ Len(toolLog) >= 1
    /\ history = Last(writes)

FailedObsMarker == "\nObservation: Tool execution failed with error: "

TurnMarkers == {FailedObsMarker, "\nObservation: ", "\nAssistant: "}

\* C3: a tool function that returns an error during a loop iteration does not
\* end the run: exactly one turn "Observation: Tool execution failed with
\* error: ..." is appended, the history with that turn is what the file holds,
\* and while fewer than 5 iterations have run the next model call can be
\* issued and its prompt contains that turn.
C3_ToolErrorObserved ==
    /\ \A k \in 1..Len(toolLog) :
          LET e == toolLog[k]
          IN  (e.step >= 1 /\ ~e.ok) =>
                /\ CallFunction(Tools[e.name], e.args).failed
                /\ Len(e.obs) >= 2
                /\ e.obs[1] = FailedObsMarker
                /\ Tail(e.obs) = CallFunction(Tools[e.name], e.args).err
                /\ \A j \in 2..Len(e.obs) : e.obs[j] \notin TurnMarkers
                /\ Len(writes) >= k
                /\ writes[k] = (IF k = 1 THEN loaded ELSE writes[k - 1]) \o e.obs
                /\ (k = Len(toolLog) /\ modelCalls = k) =>
                      /\ k < MaxSteps => (pc = "loop" /\ ~result.failed)
                      /\ k = MaxSteps => (pc = "loop" \/ result.err = ExhaustedMsg)
                      /\ history = writes[k]
                      /\ file.exists /\ file.data = writes[k]
                /\ (k = Len(toolLog) /\ pc = "act") =>
                      (modelCalls = k + 1 /\ Contains(prompt, e.obs))
    /\ (pc = "loop" /\ i < MaxSteps) => ENABLED LoopPlan

C3_Witness ==
    /\ pc = "act"
    /\ toolLog # <<>>
    /\ ~Last(toolLog).ok
    /\ Last(toolLog).obs = <<FailedObsMarker, "division by zero">>
    /\ Contains(prompt, Last(toolLog).obs)

\* the response is neither a final answer nor holds a match of the pattern
NoAction(resp) == ~HasPrefix(resp, FA) /\ FindMatch(resp) = <<>>

\* C4: a response that does not start with "Final Answer:" and holds no match
\* of the tool-call pattern ends Run at once with the error "could not find a
\* valid tool action in the LLM's response": no tool is invoked, no further
\* model call is made and no answer is returned.
C4_NoActionFound ==
    /\ [][(pc = "act" /\ NoAction(response)) =>
            /\ pc' = "returned"
            /\ result'.failed
            /\ result'.err = NoActionMsg
            /\ result'.answer = <<>>
            /\ UNCHANGED <<toolLog, modelCalls, history, writes>>]_vars
    /\ [][(Returned /\ result.err = NoActionMsg) =>
            /\ UNCHANGED <<toolLog, modelCalls, result>>
            /\ stdout' = <<>>]_vars

C4_Witness ==
    /\ pc = "exit"
    /\ result.err = NoActionMsg
    /\ Len(toolLog) = 2
    /\ modelCalls = 3

AllSpace(q) == \A k \in 1..Len(q) : IsSpace(q[k])

\* ans is x without the white space around it
IsTrimOf(ans, x) ==
    /\ ans = <<>> \/ (~IsSpace(ans[1]) /\ ~IsSpace(ans[Len(ans)]))
    /\ \E a \in 0..Len(x) : \E b \in 0..(Len(x) - a) :
          /\ a + Len(ans) + b = Len(x)
          /\ AllSpace(SubSeq(x, 1, a))
          /\ SubSeq(x, a + 1, a + Len(ans)) = ans
          /\ AllSpace(SubSeq(x, a + Len(ans) + 1, Len(x)))

\* C5: a response "Final Answer:" followed by any text X, the empty text
\* included, ends Run in that iteration with success; the answer is X without
\* its surrounding white space, and no tool is invoked in that iteration.
C5_FinalAnswer ==
    [][(pc = "act" /\ HasPrefix(response, FA)) =>
          /\ pc' = "returned"
          /\ ~result'.failed
          /\ IsTrimOf(result'.answer, Tail(response))
          /\ UNCHANGED <<toolLog, modelCalls, i>>]_vars

C5_Witness ==
    /\ pc = "returned"
    /\ response = <<FA, SP, "4", SP, "2", SP>>
    /\ result.answer = <<"4", SP, "2">>
    /\ ~result.failed

C5_WitnessEmpty ==
    /\ pc = "returned"
    /\ response = <<FA>>
    /\ result.answer = <<>>
    /\ ~result.failed

ModelCallErrors ==
    { <<"failed to send request to Ollama">>,
      <<"Ollama request failed with status code">>,
      <<"failed to decode Ollama response">> }

\* C6: when a model call fails (transport, status other than 200, body that
\* does not decode) Run returns an error and no answer; from then on no tool
\* is invoked, no model call is made, the file is not written, and main
\* prints no answer.
C6_ModelCallFailureAborts ==
    /\ [][(~httpFailed /\ httpFailed') =>
            /\ pc' = "returned"
            /\ result'.failed
            /\ result'.err \in ModelCallErrors
            /\ result'.answer = <<>>
            /\ UNCHANGED <<toolLog, writes, file>>]_vars
    /\ [][httpFailed =>
            /\ UNCHANGED <<toolLog, modelCalls, writes, file, result>>
            /\ stdout' = <<>>]_vars

C6_Witness ==
    /\ pc = "exit"
    /\ httpFailed
    /\ result.err = <<"Ollama request failed with status code">>
    /\ Len(toolLog) = 1
    /\ modelCalls = 2
    /\ exitCode = 1

\* C7: within a run every value written to the history file extends the
\* history loaded at the start, and every later write extends every earlier
\* one; the file holds the last value written.
C7_AppendOnly ==
    /\ \A k \in 1..Len(writes) : IsPrefixOf(loaded, writes[k])
    /\ \A j, k \in 1..Len(writes) : j < k =>
          (IsPrefixOf(writes[j], writes[k]) /\ Len(writes[j]) < Len(writes[k]))
    /\ writes # <<>> => file.data = Last(writes)

C7_Witness ==
    /\ Len(writes) >= 3
    /\ loaded # <<>>
    /\ pc = "returned"
    /\ ~result.failed
    /\ result.answer # <<>>

\* C10: an input that contains "chris tanti" in any letter case makes Run
\* invoke the chris_tanti tool once, with query = the input, and return its
\* result without a model call; any other input never takes the short cut,
\* and every tool it invokes was asked for by a model response.
C10_ShortCircuit ==
    /\ (Returned /\ userInput # <<>> /\ ContainsPhrase(ToLower(userInput))) =>
          /\ Len(toolLog) = 1
          /\ toolLog[1].name = <<"chris_tanti">>
          /\ toolLog[1].args.has = {"query"}
          /\ toolLog[1].args.query = userInput
          /\ ~result.failed
          /\ result.answer = ChrisTanti(toolLog[1].args).out
          /\ modelCalls = 0
          /\ writes = <<>>
    /\ ~ContainsPhrase(ToLower(userInput)) =>
          /\ pc # "shortcut"
          /\ \A k \in 1..Len(toolLog) :
                toolLog[k].step = k /\ modelCalls >= k

C10_Witness ==
    /\ pc = "exit"
    /\ userInput = <<"CHRIS TANTI">>
    /\ Len(toolLog) = 1
    /\ stdout = <<"\n--- Final Answer ---\n",
                  "Chris Tanti is a prominent figure from cardiff", "\n">>

C10_WitnessLoop ==
    /\ pc = "exit"
    /\ ~ContainsPhrase(ToLower(userInput))
    /\ Len(toolLog) >= 2
    /\ exitCode = 0

----------------------------------------------------------------------------
(* Properties of the calculator tool inside the loop *)

\* the response decodes to a call of the calculator: divide, with num2 = 0
DecodesDivideByZero(resp) ==
    /\ ~HasPrefix(resp, FA)
    /\ FindMatch(resp) # <<>>
    /\ LET c == Unmarshal(FindMatch(resp))
       IN  /\ c.ok
           /\ c.Name = <<"calculator">>
           /\ {"operation", "num1", "num2"} \subseteq c.Args.has
           /\ c.Args.operation = <<"divide">>
           /\ c.Args.num2 = 0

DivByZeroObs == <<FailedObsMarker, "division by zero">>

\* C11: the calculator called with operation "divide" and num2 = 0 returns
\* the error "division by zero" and no result, whatever num1 is; when the loop
\* makes that call the process keeps running, Run does not return, the turn
\* "Observation: Tool execution failed with error: division by zero" is
\* appended to the history and saved, and the loop moves to its next iteration.
C11_DivideByZero ==
    /\ [](\A a \in Nums :
            Calculator(CalcArgs(<<"divide">>, a, 0))
                = [out |-> <<>>, failed |-> TRUE, err |-> <<"division by zero">>])
    /\ [][(pc = "act" /\ DecodesDivideByZero(response)) =>
            /\ pc' = "loop"
            /\ i' = i + 1
            /\ exitCode' = -1
            /\ result' = NoResult
            /\ history' = history \o DivByZeroObs
            /\ file'.data = history'
            /\ Len(toolLog') = Len(toolLog) + 1
            /\ ~Last(toolLog').ok
            /\ Last(toolLog').obs = DivByZeroObs]_vars

C11_Witness ==
    /\ pc = "loop"
    /\ Len(toolLog) = 2
    /\ toolLog[1].args.operation = <<"divide">>
    /\ toolLog[1].args.num2 = 0
    /\ toolLog[1].obs = DivByZeroObs
    /\ toolLog[2].ok
    /\ exitCode = -1

----------------------------------------------------------------------------
(* Properties of the programs that start external processes *)

FixedCommands == {DfCommand, WmicCommand, PruneCommand}

\* C8: every external process the agent programs start has an argument list
\* written in the source, and no text taken from the model's output is ever
\* handed to a shell.
C8_FixedCommandsOnly ==
    \A k \in 1..Len(spawned) :
        /\ spawned[k] \in FixedCommands
        /\ \A j \in 1..Len(spawned[k]) : spawned[k][j].from = "source"

----------------------------------------------------------------------------
(* Properties of GeneratePrompt *)

\* C9: for one agent, history H and input U, every call of GeneratePrompt(H, U)
\* returns the same string, and that string contains U and the name of every
\* registered tool.
C9_PromptDeterministic ==
    /\ \A j, k \in 1..Len(promptLog) : promptLog[j] = promptLog[k]
    /\ \A k \in 1..Len(promptLog) :
          /\ Contains(promptLog[k], userInput)
          /\ \A n \in DOMAIN Tools : Contains(promptLog[k], n)

----------------------------------------------------------------------------
(* Properties of the calculator Function *)

\* the integer n written with two decimals
TwoDecimals(n) == (IF n < 0 THEN "-" ELSE "") \o ToString(Abs(n)) \o ".00"

Exact(op, a, b) ==
    CASE op = <<"add">>      -> a + b
      [] op = <<"subtract">> -> a - b
      [] op = <<"multiply">> -> a * b

AllCalcArgs == {"operation", "num1", "num2"}

\* C12: with integer operands, "add", "subtract" and "multiply" succeed and
\* return the exact result written with two decimals (add 2 3 gives "5.00");
\* an operation name other than add, subtract, multiply, divide returns the
\* error "unsupported operation: <name>" and no result.
C12_CalculatorExact ==
    (calc.called /\ calc.args.has = AllCalcArgs) =>
        LET op == calc.args.operation
        IN  /\ op \in {<<"add">>, <<"subtract">>, <<"multiply">>} =>
                  /\ ~calc.r.failed
                  /\ calc.r.out = <<TwoDecimals(Exact(op, calc.args.num1, calc.args.num2))>>
            /\ op \notin {<<"add">>, <<"subtract">>, <<"multiply">>, <<"divide">>} =>
                  /\ calc.r.failed
                  /\ calc.r.out = <<>>
                  /\ calc.r.err = <<"unsupported operation: ">> \o op

----------------------------------------------------------------------------
(* Properties of the history store *)

\* the observation turns of the tool steps of log, in order
RECURSIVE Turns(_)
Turns(log) == IF log = <<>> THEN <<>> ELSE Head(log).obs \o Turns(Tail(log))

\* C13: saving a history text H to a path and then loading that path returns
\* H, whatever the file held before; a path with no file loads as the empty
\* history without an error; and after Run has appended and saved N
\* observations, loading the file returns the loaded history followed by
\* those N turns in order, which is the history Run holds.
C13_HistoryRoundTrip ==
    /\ \A f \in InitialFiles : \A H \in Histories \cup {history} :
          GetConversationHistory(SaveConversationHistory(f, H)) = Ok(H)
    /\ \A f \in InitialFiles : ~f.exists => GetConversationHistory(f) = Ok(<<>>)
    /\ (pc \in {"loop", "act"} /\ toolLog # <<>>) =>
          /\ GetConversationHistory(file) = Ok(loaded \o Turns(toolLog))
          /\ GetConversationHistory(file) = Ok(history)
    /\ writes # <<>> => GetConversationHistory(file) = Ok(Last(writes))

C13_Witness ==
    /\ pc = "loop"
    /\ Len(toolLog) = 3
    /\ loaded # <<>>
    /\ toolLog[1].obs # toolLog[2].obs
    /\ file.data = loaded \o toolLog[1].obs \o toolLog[2].obs \o toolLog[3].obs

----------------------------------------------------------------------------
(* Properties of two runs side by side *)

\* run the locals s with the file f to the end of Run, alone, answering its
\* model calls from trace; stops early where trace runs out
RECURSIVE Solo(_, _, _)
Solo(s, f, trace) ==
    IF SessDone(s) THEN [s |-> s, f |-> f]
    ELSE IF s.pc = "loop" /\ s.i < MaxSteps
    THEN IF trace = <<>> THEN [s |-> s, f |-> f]
         ELSE LET n == RunStep(s, f, Tools, Head(trace))
              IN  Solo(n.s, n.f, Tail(trace))
    ELSE LET n == RunStep(s, f, Tools, NoHttp)
         IN  Solo(n.s, n.f, trace)

\* C14: two runs of Run with distinct history paths, interleaved step by
\* step, share no mutable state: at every point, what a run holds and what
\* its file holds lead to the locals, file content, written history and answer
\* that the run reaches alone from the start with the same model responses; a
\* step of one run changes neither the other run's locals nor the other
\* run's file, and no step changes the tool registry.
C14_SessionsIndependent ==
    /\ [](\A k \in Sessions :
            Solo(sess[k], files[SessionPath(k)], <<>>)
                = Solo(SessLocals(sess[k].userInput), FilesInit[SessionPath(k)],
                       sess[k].trace))
    /\ [][/\ Tools' = Tools
          /\ \A k \in Sessions : sess'[k] # sess[k] =>
                \A j \in Sessions \ {k} :
                    /\ sess'[j] = sess[j]
                    /\ files'[SessionPath(j)] = files[SessionPath(j)]]_vars

C14_Witness ==
    /\ \A k \in Sessions : sess[k].pc = "returned" /\ ~sess[k].result.failed
    /\ sess[1].userInput = sess[2].userInput
    /\ Len(sess[1].writes) = 3
    /\ Len(sess[2].writes) = 2
    /\ files["a.json"].data = Last(sess[1].writes)
    /\ files["b.json"].data = Last(sess[2].writes)
    /\ files["a.json"].data # files["b.json"].data

----------------------------------------------------------------------------
(* Properties of the tool-call format *)

\* position of a tool call written as the prompt instructs,
\*   { "name": "<registered tool>", "arguments": { "query": "<text>" } }
\* in resp; 0 when there is none
InstructedAt(resp) ==
    LET ks == {k \in 1..(Len(resp) - 5) :
                  /\ resp[k] = OPEN
                  /\ <<resp[k + 1]>> \in DOMAIN Tools
                  /\ resp[k + 2] = AQS
                  /\ IsText(resp[k + 3])
                  /\ resp[k + 4] = CLOSE
                  /\ resp[k + 5] = END}
    IN  IF ks = {} THEN 0 ELSE CHOOSE k \in ks : \A j \in ks : k <= j

\* C15: a response that does not start with "Final Answer:" and holds a
\* well-formed tool call in the format the prompt instructs, naming a
\* registered tool, is taken as a tool call: the loop invokes the named tool
\* with exactly the arguments written and goes on.
C15_InstructedFormatInvoked ==
    [][(pc = "act" /\ ~HasPrefix(response, FA) /\ InstructedAt(response) > 0) =>
          LET k == InstructedAt(response)
          IN  /\ pc' = "loop"
              /\ Len(toolLog') = Len(toolLog) + 1
              /\ Last(toolLog').name = <<response[k + 1]>>
              /\ Last(toolLog').args =
                    [NoArgs EXCEPT !.has = {"query"}, !.query = <<response[k + 3]>>]]_vars

----------------------------------------------------------------------------
(* Properties of the order of steps in Run *)

GeneralPath == ~Triggered(userInput)

\* one step changes the counts by at most one, and never both
OneAtATime ==
    /\ modelCalls' \in {modelCalls, modelCalls + 1}
    /\ Len(toolLog') \in {Len(toolLog), Len(toolLog) + 1}
    /\ Len(toolLog') > Len(toolLog) =>
          (modelCalls' = modelCalls /\ SubSeq(toolLog', 1, Len(toolLog)) = toolLog)

\* C16 as stated: the steps of a run are sequential and never retried, each
\* iteration makes one model call and then at most one tool invocation, and
\* over any run the tool invocations never outnumber the model calls (at most
\* 5 of each on the general path).
C16_ToolCallsWithinModelCalls ==
    /\ [](Len(toolLog) <= modelCalls)
    /\ [](GeneralPath => (modelCalls <= MaxSteps /\ Len(toolLog) <= MaxSteps))
    /\ [][OneAtATime]_vars

\* C16 amended: on the general path (the input does not hold the trigger
\* phrase) the steps are sequential and never retried: iteration k makes
\* the k-th model call and then at most one tool invocation, the k-th, so a
\* failed invocation is not repeated and the invocations never outnumber the
\* model calls, at most 5 of each.  A run on the trigger phrase makes one
\* tool invocation and no model call.
C16_SequentialGeneralPath ==
    /\ [](GeneralPath =>
            /\ Len(toolLog) <= modelCalls
            /\ modelCalls <= MaxSteps
            /\ pc = "loop" => (modelCalls = i /\ Len(toolLog) = i)
            /\ pc = "act" => (modelCalls = i + 1 /\ Len(toolLog) = i)
            /\ \A k \in 1..Len(toolLog) : toolLog[k].step = k)
    /\ []((~GeneralPath /\ Returned) => (modelCalls = 0 /\ Len(toolLog) = 1))
    /\ [][OneAtATime]_vars
    /\ [][(GeneralPath /\ Len(toolLog') > Len(toolLog)) =>
            (pc = "act" /\ modelCalls = Len(toolLog'))]_vars

C16_Witness ==
    /\ pc = "exit"
    /\ GeneralPath
    /\ Len(toolLog) = 3
    /\ ~toolLog[2].ok
    /\ toolLog[3].ok
    /\ modelCalls = 4
    /\ exitCode = 0

----------------------------------------------------------------------------
(* Properties of the history a run leaves behind *)

ObservationMarkers == {"\nObservation: ", FailedObsMarker}

\* what the run appended to the history it loaded
Appended(h) == SubSeq(h, Len(loaded) + 1, Len(h))

\* C17: when a run through the loop ends with success, the file holds the
\* history loaded at the start, then one "Observation:" turn for each tool
\* step in the order of execution, then one "Assistant:" turn with the
\* returned answer; the user's input is never appended; and a run that ends
\* with an error has written no "Assistant:" turn.
C17_FinalHistory ==
    /\ (GeneralPath /\ userInput # <<>> /\ Returned /\ ~result.failed) =>
          /\ file.exists
          /\ file.data = loaded \o Turns(toolLog) \o <<"\nAssistant: ">> \o result.answer
          /\ \A k \in 1..Len(toolLog) :
                toolLog[k].step = k /\ toolLog[k].obs[1] \in ObservationMarkers
          /\ Len(writes) = Len(toolLog) + 1
    /\ userInput # <<>> =>
          /\ IsPrefixOf(loaded, history)
          /\ ~Contains(Appended(history), userInput)
          /\ \A k \in 1..Len(writes) : ~Contains(Appended(writes[k]), userInput)
    /\ (Returned /\ result.failed) =>
          /\ \A k \in 1..Len(writes) :
                /\ writes[k] = loaded \o Turns(SubSeq(toolLog, 1, k))
                /\ "\nAssistant: " \notin {Appended(writes[k])[j] : j \in 1..Len(Appended(writes[k]))}
          /\ Len(writes) = Len(toolLog)
          /\ writes # <<>> => file.data = loaded \o Turns(toolLog)

C17_Witness ==
    /\ pc = "exit"
    /\ exitCode = 0
    /\ GeneralPath
    /\ loaded # <<>>
    /\ Len(toolLog) = 2
    /\ result.answer = <<"4", SP, "2">>
    /\ file.data = loaded \o toolLog[1].obs \o toolLog[2].obs
                       \o <<"\nAssistant: ", "4", SP, "2">>

C17_WitnessError ==
    /\ pc = "exit"
    /\ exitCode = 1
    /\ Len(toolLog) = 2
    /\ file.data = loaded \o toolLog[1].obs \o toolLog[2].obs

----------------------------------------------------------------------------
(* Properties of Run on an arbitrary registry *)

\* C18: whatever tools were registered and whatever the input, Run invokes
\* only tool functions of the registry: it never calls a function the
\* registry does not hold, and on an input with the trigger phrase and no
\* chris_tanti tool registered Run returns an error.
C18_OnlyRegisteredToolsInvoked ==
    /\ \A k \in 1..Len(toolLog) : toolLog[k].name \in DOMAIN Tools
    /\ exitCode # 2
    /\ (Triggered(userInput) /\ <<"chris_tanti">> \notin DOMAIN Tools
            /\ pc \notin {"run", "shortcut"}) =>
          (pc = "returned" /\ result.failed /\ toolLog = <<>>)

----------------------------------------------------------------------------
(* Properties of the disk agent *)

\* executeToolCall has returned
DiskDone == pc = "disk_print" \/ disk.printed # <<>>

Pruned == \E k \in 1..Len(spawned) : spawned[k] = PruneCommand

\* the usage check ran and did not fail
CheckSucceeded ==
    /\ Len(spawned) >= 1
    /\ spawned[1] \in {DfCommand, WmicCommand}
    /\ disk.err = "none"

NoActionLine == "Usage is within a safe limit. No action required."

\* C19: executeToolCall runs the prune command exactly when the tool name is
\* "run_disk_agent", the usage check succeeded and the measured usage is
\* above 75, and then runs it once; for any other tool name it runs no
\* command and returns the error object (status "error") with an error; for
\* a usage of 75 or less its result says that no action is required.
C19_PruneIffAboveThreshold ==
    DiskDone =>
        LET call == DecodeToolCall(disk.content)
        IN  /\ Pruned <=> (/\ call.ok
                           /\ call.ToolName = "run_disk_agent"
                           /\ CheckSucceeded
                           /\ disk.usage > 75)
            /\ Cardinality({k \in 1..Len(spawned) : spawned[k] = PruneCommand}) <= 1
            /\ Pruned => spawned[Len(spawned)] = PruneCommand /\ Len(spawned) = 2
            /\ (call.ok /\ call.ToolName # "run_disk_agent") =>
                  /\ spawned = <<>>
                  /\ disk.result = "error"
                  /\ disk.err = "unknown tool"
            /\ (call.ok /\ call.ToolName = "run_disk_agent" /\ CheckSucceeded
                    /\ disk.usage <= 75) =>
                  /\ disk.result = "success"
                  /\ \E k \in 1..Len(disk.out) : disk.out[k] = NoActionLine
                  /\ Len(spawned) = 1

C19_Witness ==
    /\ pc = "exit"
    /\ disk.usage = 76
    /\ disk.goos = "windows"
    /\ spawned = <<WmicCommand, PruneCommand>>
    /\ disk.result = "success"

C19_WitnessAtThreshold ==
    /\ pc = "exit"
    /\ disk.usage = 75
    /\ spawned = <<DfCommand>>
    /\ disk.result = "success"

C19_WitnessOtherTool ==
    /\ pc = "exit"
    /\ disk.content = OtherToolJSON
    /\ disk.result = "error"

----------------------------------------------------------------------------
(* Properties of the interactive chat agent *)

ChatRunning == pc \in {"chat_read", "chat_call", "chat_choose"}

\* the number a line of digits denotes; 0 for anything else
Typed(line) ==
    CASE line = "1" -> 1
      [] line = "2" -> 2
      [] line = "3" -> 3
      [] OTHER      -> 0

BashC(command) ==
    <<[text |-> "bash", from |-> "source"], [text |-> "-c", from |-> "source"],
      [text |-> command, from |-> "model"]>>

\* C20: the chat agent starts a command only at the choice prompt, when the
\* line typed is a number k from 1 to the number of proposed actions, and
\* then starts exactly the command of the k-th action, once; an empty line,
\* a line that is no number and a number out of range start nothing.  After
\* every model call that succeeded the full response is appended as the
\* assistant message right after the user's message; after a failed call
\* nothing is appended; messages are never removed or changed.
C20_ChosenActionOnly ==
    /\ [][(ChatRunning /\ spawned' # spawned) => pc = "chat_choose"]_vars
    /\ [][pc = "chat_choose" =>
            LET k == Typed(chat'.choiceStr)
            IN  /\ chat.actions # <<>>
                /\ IF 1 <= k /\ k <= Len(chat.actions)
                   THEN spawned' = Append(spawned, BashC(chat.actions[k].Command))
                   ELSE spawned' = spawned]_vars
    /\ [][(pc = "chat_choose" \/ (pc = "chat_call" /\ pc' = "chat_read" /\ ~chat'.callErr)) =>
            /\ chat.messages[Len(chat.messages)].Role = "user"
            /\ chat'.fullResponse # <<>>
            /\ chat'.messages =
                  Append(chat.messages, [Role |-> "assistant", Content |-> chat'.fullResponse])]_vars
    /\ [][(pc = "chat_call" /\ chat'.callErr) =>
            (chat'.messages = chat.messages /\ spawned' = spawned)]_vars
    /\ [][ChatRunning => IsPrefixOf(chat.messages, chat'.messages)]_vars

C20_Witness ==
    /\ pc = "chat_read"
    /\ chat.choiceStr = "2"
    /\ Len(chat.actions) = 2
    /\ spawned = <<BashC("rm -rf ~/tmp")>>
    /\ chat.messages[Len(chat.messages)] =
          [Role |-> "assistant", Content |-> chat.fullResponse]

C20_WitnessNothingRun ==
    /\ pc = "chat_read"
    /\ chat.choiceStr = "3"
    /\ Len(chat.actions) = 2
    /\ spawned = <<>>
    /\ chat.messages[Len(chat.messages)].Role = "assistant"

====
